---- MODULE Spec2Model ----
(***************************************************************************)
(* CondvarStore<T: GetExpiry> (src/src/lib.rs): one cached value with an   *)
(* expiry, refreshed by whichever caller of get() wins the is_inflight     *)
(* flag; the other callers wait on the condition variable with a timeout.  *)
(* Every thread that calls get() is a caller; a caller's pc is the place   *)
(* in get()/update() it has reached.  Time is a clock of milliseconds.     *)
(***************************************************************************)
EXTENDS Integers, FiniteSets, TLC

\* ---------------------------------------------------------------- bounds
NumCallers == 2
MaxCalls == 3
MaxTime == 3
MaxTimeout == 1

\* ------------------------------------------------------ program constants
\* Utc.timestamp(0, 0), the expiry the tests build their resource with
Epoch == 0
\* the clock the tests read (let now = Utc::now()) before they build the
\* store and start the first get() calls; it has advanced by the time a
\* get() reads it
StartTime == 1
\* chrono::Duration::seconds(10), in milliseconds
TtlMs == 10000

Callers == 1..NumCallers
NoOne == 0
\* The resource types of the tests.  RTimeout is R2 with a thread::sleep in
\* front, RError sleeps too: a sleep only lets the clock advance while the
\* caller is in T::get(), which Tick may do for every resource.
\* RPanic stands for an implementation of the trait whose get() or expiry()
\* may panic (the case the PoisonedLock error is there for); when they do
\* not, it behaves as R2.
Kinds == {"R1", "R2", "RError", "RPanic"}
Timeouts == 1..MaxTimeout

VARIABLES
    kind,          \* the resource type T the store was built with
    timeout,       \* CondvarStore.timeout
    now,           \* what Utc::now() returns
    cached,        \* CondvarStore.cached: the resource [r, e, exp]
    expiry,        \* CondvarStore.expiry
    is_inflight,   \* CondvarStore.is_inflight.0: the flag under the mutex
    gate_lock,     \* owner of the mutex of is_inflight, or NoOne
    cached_lock,   \* writer of the RwLock of cached, or NoOne
    expiry_lock,   \* writer of the RwLock of expiry, or NoOne
    poisoned,      \* the locks a panicking holder has poisoned
    pc,            \* each caller's position in get()
    t_now,         \* get(): let now
    chosen,        \* get(): let chosen ("unset" before line 88)
    updated,       \* get(): let updated ("unset" before line 100)
    deadline,      \* end of the caller's current wait_timeout
    result,        \* what the caller's last finished get() returned
    calls,         \* number of get() calls started so far
    view,          \* what a fast-path caller saw: the expiry of line 82,
                   \* then the expiry of the value read through the handle
    overlap,       \* history: some get() started while another was running
    late           \* history: the caller's get() started after a panic

vars == <<kind, timeout, now, cached, expiry, is_inflight, gate_lock,
          cached_lock, expiry_lock, poisoned, pc, t_now, chosen, updated,
          deadline, result, calls, view, overlap, late>>

store == <<kind, timeout>>
locals == <<t_now, chosen, updated, deadline>>

\* ------------------------------------------------------------- resources
\* T::get() failed: only RError fails, on its first invocation.
GetFails(k, v) == k = "RError" /\ v.e + 1 < 2

\* The resource after T::get() at time t.
GetExpiry_get(k, v, t) ==
    CASE k = "R1" -> [v EXCEPT !.r = @ + 1, !.exp = t]
      [] k \in {"R2", "RPanic"} -> [v EXCEPT !.r = @ + 1, !.exp = t + TtlMs]
      [] k = "RError" ->
            IF GetFails(k, v)
            THEN [v EXCEPT !.e = @ + 1]
            ELSE [v EXCEPT !.e = @ + 1, !.r = @ + 1, !.exp = t + TtlMs]

\* ----------------------------------------------------------------- get()
\* (variant for C3: the fast path never taken)
Fresh_Never(exp, t) == FALSE

\* (variant for C11: a value that expires now still counts as fresh)
Fresh_OrEqual(exp, t) == exp >= t

\* line 82: the cached value is still fresh
Fresh(exp, t) == exp > t

\* (variant for C1: the flag is set without being tested)
Elect_Untested(flag) == TRUE

\* lines 92-97: the caller is chosen when no refresh is in flight
Elect(flag) == ~flag

\* line 113: the time at which a wait of d that starts at t has timed out.
\* The clock stops at MaxTime, which stands for every later time: a wait
\* that would end later ends there.
WaitEnd(t, d) == IF t + d > MaxTime THEN MaxTime ELSE t + d

\* line 115: the wait ended because the time ran out
TimedOut(c) == now >= deadline[c]

\* Some leader's refresh() did not return: it panicked.
Panicked == \E c \in Callers : pc[c] = "panicked"

\* The caller is inside a get() call.
Running(c) == pc[c] \notin {"idle", "done", "panicked"}

\* The caller's get() has returned r.
Returned(c, r) == pc[c] = "done" /\ result[c] = r

Return(c, r) ==
    /\ pc' = [pc EXCEPT ![c] = "done"]
    /\ result' = [result EXCEPT ![c] = r]

Init ==
    /\ kind \in Kinds
    /\ timeout \in Timeouts
    /\ now = StartTime + 1
    /\ cached = [r |-> 0, e |-> 0, exp |-> Epoch]
    /\ expiry = cached.exp
    /\ is_inflight = FALSE
    /\ gate_lock = NoOne
    /\ cached_lock = NoOne
    /\ expiry_lock = NoOne
    /\ poisoned = {}
    /\ pc = [c \in Callers |-> "idle"]
    /\ t_now = [c \in Callers |-> 0]
    /\ chosen = [c \in Callers |-> "unset"]
    /\ updated = [c \in Callers |-> "unset"]
    /\ deadline = [c \in Callers |-> 0]
    /\ result = [c \in Callers |-> "none"]
    /\ calls = 0
    /\ view = [c \in Callers |-> [e |-> 0, v |-> 0]]
    /\ overlap = FALSE
    /\ late = [c \in Callers |-> FALSE]

\* line 80: a caller enters get() and reads the clock
Get_Now(c) ==
    /\ pc[c] \in {"idle", "done"}
    /\ calls < MaxCalls
    /\ calls' = calls + 1
    /\ t_now' = [t_now EXCEPT ![c] = now]
    /\ chosen' = [chosen EXCEPT ![c] = "unset"]
    /\ updated' = [updated EXCEPT ![c] = "unset"]
    /\ pc' = [pc EXCEPT ![c] = "fast"]
    /\ overlap' = (overlap \/ \E d \in Callers \ {c} : Running(d))
    /\ late' = [late EXCEPT ![c] = Panicked]
    /\ view' = [view EXCEPT ![c] = [e |-> 0, v |-> 0]]
    /\ UNCHANGED <<store, now, cached, expiry, is_inflight, gate_lock,
                   cached_lock, expiry_lock, poisoned, deadline, result>>

\* lines 81-85: read the expiry under its read lock; return if still fresh
\* (a poisoned lock is not an error here: the caller goes on to the gate)
Get_Fast(c) ==
    /\ pc[c] = "fast"
    /\ expiry_lock = NoOne
    /\ IF "expiry" \notin poisoned /\ Fresh(expiry, t_now[c])
       THEN /\ Return(c, "Ok")
            /\ view' = [view EXCEPT ![c].e = expiry]
       ELSE /\ pc' = [pc EXCEPT ![c] = "gate"]
            /\ UNCHANGED <<result, view>>
    /\ t_now' = [t_now EXCEPT ![c] = 0]
    /\ UNCHANGED <<store, late, overlap, now, cached, expiry, is_inflight,
                   gate_lock, cached_lock, expiry_lock, poisoned, chosen,
                   updated, deadline, calls>>

\* lines 89-91: lock the mutex of is_inflight
Gate_Lock(c) ==
    /\ pc[c] = "gate"
    /\ gate_lock = NoOne
    /\ IF "gate" \in poisoned
       THEN Return(c, "PoisonedLock") /\ UNCHANGED gate_lock
       ELSE /\ gate_lock' = c
            /\ pc' = [pc EXCEPT ![c] = "elect"]
            /\ UNCHANGED result
    /\ UNCHANGED <<store, late, overlap, view, now, cached, expiry,
                   is_inflight, cached_lock, expiry_lock, poisoned, locals,
                   calls>>

\* (variant for C19: the guard of the gate mutex outlives the block of
\* lines 88-98, so the leader holds the mutex through update())
Gate_Elect_KeepsGate(c) ==
    /\ pc[c] = "elect"
    /\ gate_lock = c
    /\ IF Elect(is_inflight)
       THEN /\ is_inflight' = TRUE
            /\ chosen' = [chosen EXCEPT ![c] = "true"]
            /\ pc' = [pc EXCEPT ![c] = "update"]
            /\ UNCHANGED gate_lock
       ELSE /\ UNCHANGED is_inflight
            /\ chosen' = [chosen EXCEPT ![c] = "false"]
            /\ pc' = [pc EXCEPT ![c] = "relock"]
            /\ gate_lock' = NoOne
    /\ UNCHANGED <<store, late, overlap, view, now, cached, expiry,
                   cached_lock, expiry_lock, poisoned, t_now, updated,
                   deadline, result, calls>>

\* lines 92-98: test and set the flag, unlock
Gate_Elect(c) ==
    /\ pc[c] = "elect"
    /\ gate_lock = c
    /\ IF Elect(is_inflight)
       THEN /\ is_inflight' = TRUE
            /\ chosen' = [chosen EXCEPT ![c] = "true"]
            /\ pc' = [pc EXCEPT ![c] = "update"]
       ELSE /\ UNCHANGED is_inflight
            /\ chosen' = [chosen EXCEPT ![c] = "false"]
            /\ pc' = [pc EXCEPT ![c] = "relock"]
    /\ gate_lock' = NoOne
    /\ UNCHANGED <<store, late, overlap, view, now, cached, expiry,
                   cached_lock, expiry_lock, poisoned, t_now, updated,
                   deadline, result, calls>>

\* lines 66-69: update() takes the write lock of cached and calls T::get()
Update_LockCached(c) ==
    /\ pc[c] = "update"
    /\ cached_lock = NoOne
    /\ IF "cached" \in poisoned
       THEN /\ updated' = [updated EXCEPT ![c] = "PoisonedLock"]
            /\ pc' = [pc EXCEPT ![c] = "finish"]
            /\ UNCHANGED cached_lock
       ELSE /\ cached_lock' = c
            /\ pc' = [pc EXCEPT ![c] = "refresh"]
            /\ UNCHANGED updated
    /\ UNCHANGED <<store, late, overlap, view, now, cached, expiry,
                   is_inflight, gate_lock, expiry_lock, poisoned, t_now,
                   chosen, deadline, result, calls>>

\* line 70: T::get() returns; on an error update() returns it
Update_Refresh(c) ==
    /\ pc[c] = "refresh"
    /\ cached_lock = c
    /\ cached' = GetExpiry_get(kind, cached, now)
    /\ IF GetFails(kind, cached)
       THEN /\ updated' = [updated EXCEPT ![c] = "Err"]
            /\ cached_lock' = NoOne
            /\ pc' = [pc EXCEPT ![c] = "finish"]
       ELSE /\ pc' = [pc EXCEPT ![c] = "expiry"]
            /\ UNCHANGED <<updated, cached_lock>>
    /\ UNCHANGED <<store, late, overlap, view, now, expiry, is_inflight,
                   gate_lock, expiry_lock, poisoned, t_now, chosen, deadline,
                   result, calls>>

\* line 70: T::get() panics; the unwinding thread drops the write lock of
\* cached, which poisons it, and never reaches line 101: the flag stays set
Update_Panic(c) ==
    /\ pc[c] = "refresh"
    /\ cached_lock = c
    /\ kind = "RPanic"
    /\ poisoned' = poisoned \cup {"cached"}
    /\ cached_lock' = NoOne
    /\ pc' = [pc EXCEPT ![c] = "panicked"]
    /\ UNCHANGED <<store, late, overlap, view, now, cached, expiry,
                   is_inflight, gate_lock, expiry_lock, locals, result,
                   calls>>

\* (variant for C17: the write lock of cached is given up before the expiry
\* is written)
Update_LockExpiry_Unnested(c) ==
    /\ pc[c] = "expiry"
    /\ expiry_lock = NoOne
    /\ expiry_lock' = c
    /\ cached_lock' = NoOne
    /\ pc' = [pc EXCEPT ![c] = "store"]
    /\ UNCHANGED <<store, late, overlap, view, now, cached, expiry,
                   is_inflight, gate_lock, poisoned, locals, result, calls>>

\* lines 71-74: update() takes the write lock of expiry
Update_LockExpiry(c) ==
    /\ pc[c] = "expiry"
    /\ expiry_lock = NoOne
    /\ IF "expiry" \in poisoned
       THEN /\ updated' = [updated EXCEPT ![c] = "PoisonedLock"]
            /\ cached_lock' = NoOne
            /\ pc' = [pc EXCEPT ![c] = "finish"]
            /\ UNCHANGED expiry_lock
       ELSE /\ expiry_lock' = c
            /\ pc' = [pc EXCEPT ![c] = "store"]
            /\ UNCHANGED <<updated, cached_lock>>
    /\ UNCHANGED <<store, late, overlap, view, now, cached, expiry,
                   is_inflight, gate_lock, poisoned, t_now, chosen, deadline,
                   result, calls>>

\* line 75: T::expiry() panics; both write locks are dropped poisoned
Store_Panic(c) ==
    /\ pc[c] = "store"
    /\ expiry_lock = c
    /\ kind = "RPanic"
    /\ poisoned' = poisoned \cup {"cached", "expiry"}
    /\ expiry_lock' = NoOne
    /\ cached_lock' = NoOne
    /\ pc' = [pc EXCEPT ![c] = "panicked"]
    /\ UNCHANGED <<store, late, overlap, view, now, cached, expiry,
                   is_inflight, gate_lock, locals, result, calls>>

\* (variant for C12: the time of the store is written, not the value's expiry)
Update_Store_Now(c) ==
    /\ pc[c] = "store"
    /\ expiry_lock = c
    /\ expiry' = now
    /\ expiry_lock' = NoOne
    /\ pc' = [pc EXCEPT ![c] = "unlock"]
    /\ UNCHANGED <<store, late, overlap, view, now, cached, is_inflight,
                   gate_lock, cached_lock, poisoned, locals, result, calls>>

\* lines 75-77: store the refreshed value's expiry; at the return the guard
\* of expiry is dropped first (locals are dropped in reverse order)
Update_Store(c) ==
    /\ pc[c] = "store"
    /\ expiry_lock = c
    /\ expiry' = cached.exp
    /\ expiry_lock' = NoOne
    /\ pc' = [pc EXCEPT ![c] = "unlock"]
    /\ UNCHANGED <<store, late, overlap, view, now, cached, is_inflight,
                   gate_lock, cached_lock, poisoned, locals, result, calls>>

\* line 77: then the guard of cached is dropped and update() returns Ok
Update_Unlock(c) ==
    /\ pc[c] = "unlock"
    /\ cached_lock = c
    /\ cached_lock' = NoOne
    /\ updated' = [updated EXCEPT ![c] = "Ok"]
    /\ pc' = [pc EXCEPT ![c] = "finish"]
    /\ UNCHANGED <<store, late, overlap, view, now, cached, expiry,
                   is_inflight, gate_lock, expiry_lock, poisoned, t_now,
                   chosen, deadline, result, calls>>

\* lines 101-103: the chosen caller locks the mutex again
Finish_Lock(c) ==
    /\ pc[c] = "finish"
    /\ gate_lock = NoOne
    /\ IF "gate" \in poisoned
       THEN Return(c, "PoisonedLock") /\ UNCHANGED gate_lock
       ELSE /\ gate_lock' = c
            /\ pc' = [pc EXCEPT ![c] = "clear"]
            /\ UNCHANGED result
    /\ UNCHANGED <<store, late, overlap, view, now, cached, expiry,
                   is_inflight, cached_lock, expiry_lock, poisoned, locals,
                   calls>>

\* line 106: updated? returns the error of update() to the caller
Propagate(u) ==
    CASE u = "Err" -> "RefreshErr"
      [] u = "PoisonedLock" -> "PoisonedLock"
      [] OTHER -> "continue"

\* (variant for C5: the error of update() is returned before the flag is cleared)
Finish_Clear_ErrFirst(c) ==
    /\ pc[c] = "clear"
    /\ gate_lock = c
    /\ gate_lock' = NoOne
    /\ IF Propagate(updated[c]) = "continue"
       THEN /\ is_inflight' = FALSE
            /\ pc' = [pc EXCEPT ![c] = "relock"]
            /\ UNCHANGED result
       ELSE /\ Return(c, Propagate(updated[c]))
            /\ UNCHANGED is_inflight
    /\ UNCHANGED <<store, late, overlap, view, now, cached, expiry,
                   cached_lock, expiry_lock, poisoned, locals, calls>>

\* lines 104-107: assert the flag, clear it, unlock; no notify on the condvar
Finish_Clear(c) ==
    /\ pc[c] = "clear"
    /\ gate_lock = c
    /\ gate_lock' = NoOne
    /\ IF ~is_inflight
       THEN /\ poisoned' = poisoned \cup {"gate"}
            /\ pc' = [pc EXCEPT ![c] = "panicked"]
            /\ UNCHANGED <<is_inflight, result>>
       ELSE /\ is_inflight' = FALSE
            /\ UNCHANGED poisoned
            /\ IF Propagate(updated[c]) = "continue"
               THEN pc' = [pc EXCEPT ![c] = "relock"] /\ UNCHANGED result
               ELSE Return(c, Propagate(updated[c]))
    /\ UNCHANGED <<store, late, overlap, view, now, cached, expiry,
                   cached_lock, expiry_lock, locals, calls>>

\* lines 108-110: every caller past the gate locks the mutex
Wait_Lock(c) ==
    /\ pc[c] = "relock"
    /\ gate_lock = NoOne
    /\ IF "gate" \in poisoned
       THEN Return(c, "PoisonedLock") /\ UNCHANGED gate_lock
       ELSE /\ gate_lock' = c
            /\ pc' = [pc EXCEPT ![c] = "check"]
            /\ UNCHANGED result
    /\ UNCHANGED <<store, late, overlap, view, now, cached, expiry,
                   is_inflight, cached_lock, expiry_lock, poisoned, locals,
                   calls>>

\* (variant for C10: the value is handed out while the flag is still set)
Wait_Check_NoWait(c) ==
    /\ pc[c] = "check"
    /\ gate_lock = c
    /\ gate_lock' = NoOne
    /\ Return(c, "Ok")
    /\ UNCHANGED <<store, late, overlap, view, now, cached, expiry,
                   is_inflight, cached_lock, expiry_lock, poisoned, locals,
                   calls>>

\* lines 111-113, 120: while the flag is set wait (releasing the mutex), else Ok
Wait_Check(c) ==
    /\ pc[c] = "check"
    /\ gate_lock = c
    /\ gate_lock' = NoOne
    /\ IF is_inflight
       THEN /\ deadline' = [deadline EXCEPT ![c] = WaitEnd(now, timeout)]
            /\ pc' = [pc EXCEPT ![c] = "waiting"]
            /\ UNCHANGED result
       ELSE Return(c, "Ok") /\ UNCHANGED deadline
    /\ UNCHANGED <<store, late, overlap, view, now, cached, expiry,
                   is_inflight, cached_lock, expiry_lock, poisoned, t_now,
                   chosen, updated, calls>>

\* (variant for C7: a waiter reports the failure of the refresh)
OnTimeout_AsRefreshErr(flag) == "RefreshErr"

\* lines 115-117: what get() returns when wait_timeout reports a timeout
OnTimeout(flag) == "GetTimeout"

\* (variant for C8: a waiter that gives up resets the flag)
Wait_TimedOut_Clears(c) ==
    /\ pc[c] = "waiting"
    /\ TimedOut(c)
    /\ gate_lock = NoOne
    /\ Return(c, OnTimeout(is_inflight))
    /\ is_inflight' = FALSE
    /\ deadline' = [deadline EXCEPT ![c] = 0]
    /\ UNCHANGED <<store, late, overlap, view, now, cached, expiry,
                   gate_lock, cached_lock, expiry_lock, poisoned, t_now,
                   chosen, updated, calls>>

\* lines 113-117: the wait times out; the mutex is re-acquired and dropped
Wait_TimedOut(c) ==
    /\ pc[c] = "waiting"
    /\ TimedOut(c)
    /\ gate_lock = NoOne
    /\ IF "gate" \in poisoned
       THEN Return(c, "PoisonedLock")
       ELSE Return(c, OnTimeout(is_inflight))
    /\ deadline' = [deadline EXCEPT ![c] = 0]
    /\ UNCHANGED <<store, late, overlap, view, now, cached, expiry,
                   is_inflight, gate_lock, cached_lock, expiry_lock,
                   poisoned, t_now, chosen, updated, calls>>

\* (variant for C16: `if` for `while`, a woken waiter takes the value unchecked)
Wait_Woken_NoRecheck(c) ==
    /\ pc[c] = "waiting"
    /\ ~TimedOut(c)
    /\ Return(c, "Ok")
    /\ deadline' = [deadline EXCEPT ![c] = 0]
    /\ UNCHANGED <<store, late, overlap, view, now, cached, expiry,
                   is_inflight, gate_lock, cached_lock, expiry_lock,
                   poisoned, t_now, chosen, updated, calls>>

\* line 113: a wake-up inside wait_timeout before the timeout (the code
\* never notifies; wait_timeout may wake spuriously): that the wait did not
\* time out is settled here, the mutex is still to be taken again
Wait_Woken(c) ==
    /\ pc[c] = "waiting"
    /\ ~TimedOut(c)
    /\ pc' = [pc EXCEPT ![c] = "woken"]
    /\ deadline' = [deadline EXCEPT ![c] = 0]
    /\ UNCHANGED <<store, late, overlap, view, now, cached, expiry,
                   is_inflight, gate_lock, cached_lock, expiry_lock,
                   poisoned, t_now, chosen, updated, result, calls>>

\* lines 113-118: the woken waiter takes the mutex again, which blocks
\* while another caller holds it, however long; wait_timeout then returns
\* not timed out and the loop is back at the test of line 111
Wait_Relock(c) ==
    /\ pc[c] = "woken"
    /\ gate_lock = NoOne
    /\ IF "gate" \in poisoned
       THEN Return(c, "PoisonedLock") /\ UNCHANGED gate_lock
       ELSE /\ gate_lock' = c
            /\ pc' = [pc EXCEPT ![c] = "check"]
            /\ UNCHANGED result
    /\ UNCHANGED <<store, late, overlap, view, now, cached, expiry,
                   is_inflight, cached_lock, expiry_lock, poisoned, locals,
                   calls>>

\* lines 208-211: the caller that got the handle on the fast path reads the
\* value through it, under the read lock of cached (which a writer blocks;
\* a poisoned lock yields no value)
Handle_Read(c) ==
    /\ Returned(c, "Ok")
    /\ view[c].e # 0 /\ view[c].v = 0
    /\ cached_lock = NoOne
    /\ "cached" \notin poisoned
    /\ view' = [view EXCEPT ![c].v = cached.exp]
    /\ UNCHANGED <<store, late, overlap, now, cached, expiry, is_inflight,
                   gate_lock, cached_lock, expiry_lock, poisoned, pc, locals,
                   result, calls>>

\* Utc::now() advances
Tick ==
    /\ now < MaxTime
    /\ now' = now + 1
    /\ UNCHANGED <<store, late, overlap, view, cached, expiry, is_inflight,
                   gate_lock, cached_lock, expiry_lock, poisoned, pc, locals,
                   result, calls>>

Step(c) ==
    \/ Get_Now(c)
    \/ Get_Fast(c)
    \/ Gate_Lock(c)
    \/ Gate_Elect(c)
    \/ Update_LockCached(c)
    \/ Update_Refresh(c)
    \/ Update_LockExpiry(c)
    \/ Update_Panic(c)
    \/ Store_Panic(c)
    \/ Update_Store(c)
    \/ Update_Unlock(c)
    \/ Finish_Lock(c)
    \/ Finish_Clear(c)
    \/ Wait_Lock(c)
    \/ Wait_Check(c)
    \/ Wait_TimedOut(c)
    \/ Wait_Woken(c)
    \/ Wait_Relock(c)
    \/ Handle_Read(c)

Next == Tick \/ \E c \in Callers : Step(c)

Spec == Init /\ [][Next]_vars

\* The clock advances, every thread that can run does run, and a thread
\* blocked on a lock that is released again and again gets it.
FairSpec ==
    /\ Spec
    /\ WF_vars(Tick)
    /\ \A c \in Callers : SF_vars(Step(c))

TypeOK ==
    /\ kind \in Kinds
    /\ timeout \in Timeouts
    /\ now \in StartTime + 1..MaxTime
    /\ poisoned \subseteq {"gate", "cached", "expiry"}
    /\ overlap \in BOOLEAN
    /\ \A c \in Callers : late[c] \in BOOLEAN
    /\ \A c \in Callers : view[c].e >= 0 /\ view[c].v >= 0
    /\ is_inflight \in BOOLEAN
    /\ gate_lock \in Callers \cup {NoOne}
    /\ cached_lock \in Callers \cup {NoOne}
    /\ expiry_lock \in Callers \cup {NoOne}
    /\ \A c \in Callers : chosen[c] \in {"unset", "true", "false"}
    /\ \A c \in Callers :
          result[c] \in {"none", "Ok", "GetTimeout", "RefreshErr", "PoisonedLock"}

\* ------------------------------------------------------------ properties
\* The callers between winning the flag (line 93) and clearing it (line 105).
Leading(c) ==
    pc[c] \in {"update", "refresh", "expiry", "store", "unlock", "finish", "clear"}
Leaders == {c \in Callers : Leading(c)}

\* The caller is inside T::get(), called from update().
InRefresh(c) == pc[c] = "refresh"

\* C1: at most one caller at a time leads a refresh or is inside refresh();
\* a caller is there only after it found the flag false and set it, and the
\* flag stays set while it is; a caller that found the flag set is a
\* follower and never enters update().
C1_SingleFlight ==
    /\ Cardinality(Leaders) <= 1
    /\ Cardinality({c \in Callers : InRefresh(c)}) <= 1
    /\ \A c \in Callers : Leading(c) => chosen[c] = "true" /\ is_inflight
    /\ \A c \in Callers : chosen[c] = "false" => ~Leading(c)

C1_Witness ==
    \E c, d \in Callers :
        /\ InRefresh(c)
        /\ chosen[d] = "false"
        /\ pc[d] = "waiting"

\* C2: with a resource whose refresh sets the expiry into the future, once
\* every caller's get() has returned and the value is still fresh, refresh()
\* has run exactly once.
C2_RefreshedOnce ==
    (kind = "R2" /\ expiry > now /\ \A c \in Callers : pc[c] = "done")
        => cached.r = 1

\* C3: a get() that reads an expiry later than its now returns Ok in that
\* step, without the gate, without a wait, without refresh(), and changes
\* nothing of the store, whatever the other callers are doing.
C3_FastPath ==
    [][\A c \in Callers :
          (pc[c] = "fast" /\ pc'[c] # "fast"
              /\ "expiry" \notin poisoned /\ expiry > t_now[c])
          => /\ Returned(c, "Ok")'
             /\ chosen'[c] = "unset"
             /\ UNCHANGED <<is_inflight, cached, expiry, gate_lock,
                            cached_lock, expiry_lock, deadline, poisoned>>]_vars

C3_Witness ==
    \E c, d \in Callers :
        /\ Returned(c, "Ok")
        /\ chosen[c] = "unset"
        /\ InRefresh(d)

\* C4: the step in which the leader clears the flag wakes every follower
\* that is waiting with its timeout not yet elapsed.
C4_ClearWakesFollowers ==
    [][\A c \in Callers :
          (pc[c] = "waiting" /\ ~TimedOut(c) /\ is_inflight /\ ~is_inflight')
          => pc'[c] # "waiting"]_vars

\* C5: a set flag is eventually cleared, after a successful and after a
\* failed refresh (a refresh() that returns); the flag is set exactly while
\* some caller leads, and it is cleared only by the step of line 105 of the
\* caller that set it.
C5_CycleEnds ==
    /\ (is_inflight /\ ~Panicked) ~> (~is_inflight \/ Panicked)
    /\ [](~Panicked => (is_inflight <=> Leaders # {}))
    /\ [][(is_inflight /\ ~is_inflight')
            => \E c \in Callers :
                  /\ pc[c] = "clear" /\ chosen[c] = "true"
                  /\ pc'[c] # "clear"]_vars

C5_Witness ==
    \E c \in Callers :
        /\ Returned(c, "RefreshErr")
        /\ ~is_inflight
        /\ cached.e = 1

\* C7: only the caller that led the failed refresh returns its error; a
\* follower returns Ok or GetTimeout.
C7_ErrorOnlyToLeader ==
    \A c \in Callers :
        /\ Returned(c, "RefreshErr") => chosen[c] = "true" /\ updated[c] = "Err"
        /\ (pc[c] = "done" /\ chosen[c] = "false")
              => result[c] \in {"Ok", "GetTimeout"}

C7_Witness ==
    \E c, d \in Callers :
        /\ Returned(c, "RefreshErr")
        /\ chosen[d] = "false"
        /\ Returned(d, "Ok")
        /\ cached.r = 0

\* C6: after the one failing refresh of RError the leader's get() has
\* returned the error, the expiry is still the stale one and the flag is
\* clear unless a new leader has set it; no error is cached: no get()
\* returns Ok before refresh() has run again, and the caller that leads a
\* later cycle whose refresh() succeeds returns Ok.
C6_FailureNotCached ==
    /\ (kind = "RError" /\ cached.e = 1 /\ Leaders = {})
          => /\ \E c \in Callers : result[c] = "RefreshErr"
             /\ expiry = Epoch /\ cached.r = 0
             /\ ~is_inflight
    /\ \A c \in Callers :
          (pc[c] = "done" /\ chosen[c] = "true" /\ updated[c] = "Err")
              => result[c] = "RefreshErr"
    /\ \A c \in Callers :
          (kind = "RError" /\ Returned(c, "Ok") /\ chosen[c] = "unset")
              => cached.e >= 2 /\ cached.r >= 1
    /\ \A c \in Callers :
          (pc[c] = "done" /\ chosen[c] = "true" /\ updated[c] = "Ok")
              => result[c] = "Ok"

\* The expiry the caller read at line 81 is later than its now.
SeesFresh(c) ==
    pc[c] = "fast" /\ "expiry" \notin poisoned /\ expiry > t_now[c]

\* C8: the step in which a follower's wait times out returns GetTimeout and
\* changes neither the flag, the cached value, the expiry nor the leader's
\* position; the leader still finishes, with the refreshed value and its
\* expiry stored; a get() started once the stored expiry is in the future
\* keeps seeing it so and returns Ok with a refreshed value, leaving the
\* refresh counter as it was (as long as no refresh() has panicked).
C8_TimeoutLeavesRefresh ==
    /\ [][poisoned' # {} \/ \A c \in Callers :
            /\ (pc[c] = "waiting" /\ is_inflight /\ Returned(c, "GetTimeout")')
                  => /\ UNCHANGED <<is_inflight, cached, expiry, cached_lock,
                                    expiry_lock>>
                     /\ \A d \in Leaders :
                           pc'[d] = pc[d] /\ updated'[d] = updated[d]
            /\ (pc[c] \in {"idle", "done"} /\ pc'[c] = "fast" /\ expiry > now)
                  => SeesFresh(c)'
            /\ (SeesFresh(c) /\ pc'[c] = "fast") => SeesFresh(c)'
            /\ (SeesFresh(c) /\ pc'[c] # "fast")
                  => /\ Returned(c, "Ok")'
                     /\ cached.r >= 1
                     /\ cached' = cached]_vars
    /\ [](\A c \in Callers :
            (pc[c] \in {"finish", "clear"} /\ updated[c] = "Ok")
                => cached.r >= 1 /\ expiry = cached.exp)
    /\ \A c \in Callers :
          (Leading(c) /\ \E d \in Callers : Returned(d, "GetTimeout"))
              ~> ~Leading(c)

C8_Witness ==
    \E c, d \in Callers :
        /\ kind = "R2"
        /\ Returned(d, "GetTimeout") /\ chosen[d] = "false"
        /\ Returned(c, "Ok") /\ chosen[c] = "unset"
        /\ cached.r = 1

\* C9: a wait ends in GetTimeout only while the flag is still set.
C9_TimeoutOnlyInFlight ==
    [][\A c \in Callers :
          (pc[c] = "waiting" /\ Returned(c, "GetTimeout")')
          => is_inflight]_vars

\* C10: with a resource whose refresh always succeeds (R1 sets the expiry
\* to the time of the refresh, R2 later), the value behind the handle of a
\* get() that returned Ok has been refreshed and its expiry is later than
\* the time the first get() calls were started, on every path.
C10_ExpiryAfterStart ==
    \A c \in Callers :
        (kind \in {"R1", "R2"} /\ Returned(c, "Ok"))
            => cached.r >= 1 /\ cached.exp > StartTime

C10_Witness ==
    \E c \in Callers :
        /\ kind = "R1"
        /\ Returned(c, "Ok")
        /\ chosen[c] = "false"
        /\ cached.exp = StartTime + 1
\* C11 (as stated): with R1, whose refresh() sets the expiry to the time of
\* the refresh, every get() finds the Store stale: none returns on the fast
\* path.
C11_EveryGetStale ==
    \A c \in Callers :
        (kind = "R1" /\ Returned(c, "Ok")) => chosen[c] # "unset"

\* Every get() so far has returned.
Quiet == \A c \in Callers : ~Running(c)

\* C11 (amended): with R1 the stored expiry is never later than the clock, so
\* the Store is stale for every get() that reads the clock from then on; a
\* get() that finds it stale goes to the gate, one that finds the flag clear
\* there becomes leader, and a leader's refresh() runs once and adds one to
\* the counter; when no two get() calls overlapped, the counter equals the
\* number of calls and each call returned Ok.
C11_StaleAfterRefresh ==
    /\ [](kind = "R1" => expiry <= now /\ cached.exp <= now)
    /\ [][\A c \in Callers :
            /\ (pc[c] = "fast" /\ pc'[c] # "fast" /\ expiry <= t_now[c])
                  => pc'[c] = "gate"
            /\ (pc[c] = "elect" /\ pc'[c] # "elect" /\ ~is_inflight)
                  => pc'[c] = "update" /\ chosen'[c] = "true"
            /\ (kind = "R1" /\ InRefresh(c) /\ ~InRefresh(c)')
                  => cached'.r = cached.r + 1 /\ pc'[c] = "expiry"
            /\ (kind = "R1" /\ ~InRefresh(c)) => (cached'.r = cached.r \/
                  \E d \in Callers \ {c} : InRefresh(d))]_vars
    /\ [](kind = "R1" /\ ~overlap /\ Quiet
            => /\ cached.r = calls
               /\ \A c \in Callers : pc[c] = "done" => result[c] = "Ok")

C11_Witness ==
    /\ kind = "R1"
    /\ ~overlap
    /\ Quiet
    /\ calls = 3
    /\ cached.r = 3
    /\ \A c \in Callers : Returned(c, "Ok")

\* C12: the cached value changes only in the refresh() step of the caller
\* that set the flag and still holds it; the expiry changes only in that
\* caller's store step, after its refresh() succeeded, and becomes the
\* refreshed value's expiry; a step of a caller that does not lead (fast
\* path, follower waiting, follower timing out) changes neither.
C12_OnlyLeaderWrites ==
    [][/\ cached' # cached
            => \E c \in Callers :
                  /\ InRefresh(c) /\ ~InRefresh(c)'
                  /\ chosen[c] = "true" /\ is_inflight /\ cached_lock = c
       /\ expiry' # expiry
            => \E c \in Callers :
                  /\ pc[c] = "store" /\ pc'[c] = "unlock"
                  /\ chosen[c] = "true" /\ is_inflight /\ cached_lock = c
                  /\ cached.r >= 1 /\ (kind = "RError" => cached.e >= 2)
                  /\ expiry' = cached.exp
       /\ \A c \in Callers :
            (~Leading(c) /\ pc'[c] # pc[c]) => UNCHANGED <<cached, expiry>>]_vars

C12_Witness ==
    \E c, d \in Callers :
        /\ pc[c] = "unlock"
        /\ expiry = cached.exp /\ expiry > Epoch
        /\ pc[d] = "waiting" /\ TimedOut(d)

\* C13: a get() that comes upon a poisoned lock returns PoisonedLock: at the
\* fast-path read of expiry, at each lock of the gate mutex (and the wait on
\* it), and in update() at the write locks of cached and expiry, whose error
\* the leader returns at line 106.
C13_PoisonReported ==
    [][\A c \in Callers :
          /\ (pc[c] = "fast" /\ pc'[c] # "fast" /\ "expiry" \in poisoned)
                => Returned(c, "PoisonedLock")'
          /\ (pc[c] \in {"gate", "finish", "relock", "woken"}
                  /\ pc'[c] # pc[c] /\ "gate" \in poisoned)
                => Returned(c, "PoisonedLock")'
          /\ (pc[c] = "waiting" /\ pc'[c] = "done" /\ "gate" \in poisoned)
                => Returned(c, "PoisonedLock")'
          /\ (pc[c] = "update" /\ pc'[c] # "update" /\ "cached" \in poisoned)
                => updated'[c] = "PoisonedLock"
          /\ (pc[c] = "expiry" /\ pc'[c] # "expiry" /\ "expiry" \in poisoned)
                => updated'[c] = "PoisonedLock"
          /\ (pc[c] = "clear" /\ pc'[c] # "clear"
                  /\ updated[c] = "PoisonedLock")
                => Returned(c, "PoisonedLock")']_vars

\* C14: a get() started after a leader has panicked inside update(), on a
\* Store that is still stale, returns PoisonedLock.
C14_PanicReported ==
    \A c \in Callers :
        (late[c] /\ expiry <= now /\ pc[c] = "done")
            => result[c] = "PoisonedLock"

\* C15: the assert of line 104 never fails: a leader at line 104 finds the
\* flag set and the gate mutex is never poisoned; the flag changes only
\* when a caller at line 92 finds it clear with no leader about and sets it,
\* and when the caller that set it clears it at line 105; while a caller
\* leads, no step of another caller changes the flag.
C15_AssertHolds ==
    /\ [](\A c \in Callers : pc[c] = "clear" => is_inflight)
    /\ []("gate" \notin poisoned)
    /\ [][/\ (~is_inflight /\ is_inflight')
               => \E c \in Callers :
                     pc[c] = "elect" /\ pc'[c] = "update" /\ Leaders = {}
          /\ (is_inflight /\ ~is_inflight')
               => \E c \in Callers :
                     pc[c] = "clear" /\ pc'[c] # "clear" /\ chosen[c] = "true"
          /\ \A c, d \in Callers :
               (c # d /\ Leading(c) /\ pc'[d] # pc[d])
                   => is_inflight /\ is_inflight']_vars

C15_Witness ==
    \E c, d \in Callers :
        /\ pc[c] = "clear" /\ gate_lock = c
        /\ Returned(d, "GetTimeout") /\ chosen[d] = "false"
        /\ calls = 3

\* C16: a get() returns Ok off the fast path only in the step of line 111
\* that, holding the gate mutex, finds the flag clear; a caller that finds
\* it set there waits, and a waiter woken without a timeout takes the mutex
\* again and is back at that test.
C16_OkOnlyFlagClear ==
    [][\A c \in Callers :
          /\ (pc[c] \notin {"fast", "done"} /\ Returned(c, "Ok")')
                => pc[c] = "check" /\ gate_lock = c /\ ~is_inflight
          /\ (pc[c] = "check" /\ pc'[c] # "check" /\ is_inflight)
                => pc'[c] = "waiting"
          /\ (pc[c] = "waiting" /\ pc'[c] # "waiting" /\ ~TimedOut(c))
                => pc'[c] = "woken"
          /\ (pc[c] = "woken" /\ pc'[c] # "woken")
                => pc'[c] = "check" /\ gate_lock' = c]_vars

C16_Witness ==
    \E c, d \in Callers :
        /\ Returned(c, "Ok") /\ chosen[c] = "false"
        /\ pc[d] = "relock" /\ chosen[d] = "true"
        /\ ~is_inflight

\* C17 (as stated): the leader updates the value and the expiry under two
\* independent guards, one critical section after the other, so that a
\* reader can come between the two: the leader never holds the write lock
\* of cached while it holds the write lock of expiry.
C17_IndependentGuards ==
    \A c \in Callers : ~(expiry_lock = c /\ cached_lock = c)

\* C17 (amended): the leader writes the expiry after T::get() has written
\* the value and while it still holds the write lock of cached; whenever
\* the value can be read (no writer, lock not poisoned) the stored expiry is
\* the value's own, and a caller that saw an expiry on the fast path reads,
\* through the handle, a refreshed value that expires no earlier.
C17_ValueNotOlder ==
    /\ [](\A c \in Callers : expiry_lock = c => cached_lock = c /\ cached.r >= 1)
    /\ [](cached_lock = NoOne /\ "cached" \notin poisoned => expiry = cached.exp)
    /\ [](\A c \in Callers :
            view[c].v # 0 => view[c].v >= view[c].e /\ cached.r >= 1)
    /\ [][\A c \in Callers :
            (view[c].e # 0 /\ view[c].v = 0 /\ view'[c].v # 0)
                => cached_lock = NoOne /\ view'[c].v = cached.exp]_vars

C17_Witness ==
    \E c, d \in Callers :
        /\ pc[d] = "finish" /\ updated[d] = "Ok"
        /\ Returned(c, "Ok") /\ chosen[c] = "unset"
        /\ view[c].e = expiry /\ view[c].v = cached.exp
        /\ cached.r = 1

\* C18: the caller that led a refresh whose update() returned Ok returns Ok
\* from that get(), never GetTimeout.
C18_LeaderReturnsOk ==
    \A c \in Callers :
        (chosen[c] = "true" /\ updated[c] = "Ok")
            => ~Returned(c, "GetTimeout")

\* C19: every get() that has started returns (or its thread panics in the
\* resource, which the claim sets aside), given that the clock advances and
\* every thread that can run does; a returned get() gave Ok, GetTimeout, the
\* refresh error or PoisonedLock; no caller holds the gate mutex while it
\* is in update(), nor takes the gate mutex while holding a lock of
\* update(), and the write lock of expiry is held only inside that of
\* cached.
C19_EveryGetReturns ==
    /\ \A c \in Callers : Running(c) ~> (pc[c] = "done" \/ pc[c] = "panicked")
    /\ [](\A c \in Callers :
            pc[c] = "done"
                => result[c] \in {"Ok", "GetTimeout", "RefreshErr", "PoisonedLock"})
    /\ [](\A c \in Callers :
            pc[c] \in {"update", "refresh", "expiry", "store", "unlock"}
                => gate_lock # c)
    /\ [](\A c \in Callers :
            /\ gate_lock = c => cached_lock # c /\ expiry_lock # c
            /\ expiry_lock = c => pc[c] = "store" /\ cached_lock = c
            /\ cached_lock = c => pc[c] \in {"refresh", "expiry", "store", "unlock"})

C19_Witness ==
    \E c, d \in Callers :
        /\ Quiet /\ calls = 3
        /\ Returned(c, "GetTimeout")
        /\ Returned(d, "RefreshErr")
====
